---- MODULE Spec2Model ----
(***************************************************************************)
(* RainyPage (client/src/pages/RainyPage.tsx) and RainEffect: the page     *)
(* controller's React state, the ambient and thunder audio elements, the   *)
(* three effects with their dependency lists, and the browser timers.      *)
(*                                                                         *)
(* One step is one browser task: a control's event handler (with the       *)
(* render that follows it), one pass of the effects React runs after a     *)
(* commit, one timer callback, one promise rejection callback, or the      *)
(* passing of time.  React runs the effects of an update that comes from   *)
(* a click before anything else can run, so timers, controls and time are  *)
(* enabled only in settled states (no effect with changed dependencies).   *)
(*                                                                         *)
(* Volumes are in hundredths (0.8 is 80), times in milliseconds.           *)
(***************************************************************************)
EXTENDS Integers, Sequences, FiniteSets, TLC

VARIABLES
    weatherIntensity,     \* useState<WeatherType>('medium')
    timeOfDay,            \* useState<TimeOfDay>('night')
    showControls,         \* useState(true)
    isMuted,              \* useState(false)
    windowOpen,           \* useState(false)
    volume,               \* useState(0.5)
    isThundering,         \* useState(false)
    enableManualThunder,  \* useState(false)
    surface,              \* useState<Surface>('glass')
    audio,                \* audioRef.current: [src, volume, paused]
    thunderAudio,         \* thunderAudioRef.current: [volume]
    audioDeps,            \* dependencies the audio effect last ran with
    volumeDeps,           \* dependencies the volume effect last ran with
    thunderDeps,          \* dependencies the thunder effect last ran with
    timers,               \* pending randomInterval timers (the auto-loop)
    clears,               \* pending flash-clear timers: ms left, oldest first
    timerRef,             \* timerRef.current of the live thunder effect
    rejections,           \* rejected play() promises whose catch has not run
    mounted,              \* the page is mounted
    dropCount,            \* RainEffect: useMemo dropCount
    drops,                \* RainEffect: useMemo drops
    sinceAuto,            \* ms since the last auto-loop flash of this heavy spell
    restarted,            \* the thunder effect re-ran since that flash
    sinceManual,          \* ms since the last manual trigger
    log                   \* what the last step did

vars == <<weatherIntensity, timeOfDay, showControls, isMuted, windowOpen, volume,
          isThundering, enableManualThunder, surface, audio, thunderAudio,
          audioDeps, volumeDeps, thunderDeps, timers, clears, timerRef, rejections,
          mounted, dropCount, drops, sinceAuto, restarted, sinceManual, log>>

uiVars == <<weatherIntensity, timeOfDay, showControls, isMuted, windowOpen,
            enableManualThunder, surface>>

rainVars == <<dropCount, drops>>

effectVars == <<audioDeps, volumeDeps, thunderDeps>>

clockVars == <<sinceAuto, restarted, sinceManual>>

----------------------------------------------------------------------------
(* Types and program constants *)

WeatherType == {"light", "medium", "heavy"}

TimeOfDay == {"day", "night", "dusk"}

Surface == {"glass", "metal", "tiles", "car", "leaves", "cement"}

AUDIO_SOURCES ==
    [s \in Surface |->
        [i \in WeatherType |->
            CASE s = "glass"  -> "2020/03/Rain-on-window-sound.mp3"
              [] s = "metal"  -> "2023/05/Rain-on-metal-roof-sound.mp3"
              [] s = "tiles"  -> "2020/06/Rain-on-roof-sounds.mp3"
              [] s = "car"    -> "2021/07/Raindrops-on-the-car-window-sound-effect.mp3"
              [] s = "leaves" -> "2016/04/Rainforest-sounds.mp3"
              [] s = "cement" -> "2019/06/Rain-on-concrete.mp3"]]

\* an <audio> element without a src attribute
NoSrc == ""

INITIAL_VOLUME == 50

DEFAULT_ELEMENT_VOLUME == 100

OPEN_VOLUME == 80

CLOSED_VOLUME == 30

THUNDER_OPEN_VOLUME == 100

THUNDER_CLOSED_VOLUME == 50

FLASH_MS == 1000

THUNDER_MIN == 5000

THUNDER_SPAN == 10000

DROPS_LIGHT == 50

DROPS_MEDIUM == 150

DROPS_HEAVY == 400

DROPS_DEFAULT == 100

----------------------------------------------------------------------------
(* Bounds of the model *)

\* a manual flash is triggered while fewer flash-clear timers are pending
MaxClears == 2

\* the grid of time: user events and timers happen at multiples of it
TickMs == FLASH_MS \div 2

\* Math.random() at its extremes: 0 and the last grid point below 1
DelaySteps == {0, (THUNDER_SPAN \div TickMs) - 1}

\* the same on the grid of whole flashes
CoarseDelaySteps == {0, 2 * ((THUNDER_SPAN \div FLASH_MS) - 1)}

\* Math.random() at its two lowest grid points
ShortDelaySteps == {0, 1}

\* play() resolves (TRUE) or is rejected by the autoplay policy (FALSE)
PlayOutcomes == BOOLEAN

\* playback is allowed throughout
PlayAllowed == {TRUE}

\* intensity values outside WeatherType, for the default branch of dropCount
OtherIntensity == {"none", "storm"}

\* no value (a clock that is not running)
None == 0 - 1

NoDeps == <<>>

\* timerRef of no live thunder effect
NoTimer == None

----------------------------------------------------------------------------
(* RainEffect *)

\* heavy falling through to the default
DropCountOf_HeavyDefault(intensity) ==
    CASE intensity = "light"  -> DROPS_LIGHT
      [] intensity = "medium" -> DROPS_MEDIUM
      [] OTHER                -> DROPS_DEFAULT

DropCountOf(intensity) ==
    CASE intensity = "light"  -> DROPS_LIGHT
      [] intensity = "medium" -> DROPS_MEDIUM
      [] intensity = "heavy"  -> DROPS_HEAVY
      [] OTHER                -> DROPS_DEFAULT

\* Array.from({length: n}).map((_, i) => ({id: i, ...})): the records by id
MakeDrops(n) == [k \in 1..n |-> k - 1]

\* the render of <RainEffect intensity={i}/>: both memos, by their dependencies
RenderRain(i) ==
    LET dc == IF i # weatherIntensity THEN DropCountOf(i) ELSE dropCount
    IN  /\ dropCount' = dc
        /\ drops' = IF dc # dropCount THEN MakeDrops(dc) ELSE drops

----------------------------------------------------------------------------
(* Effects' dependency lists *)

AudioDepsNow == <<weatherIntensity, isMuted, volume, surface>>

VolumeDepsNow == <<windowOpen>>

\* the dependency list without isMuted and windowOpen: a stale closure
ThunderDepsNow_IntensityOnly == <<weatherIntensity, FALSE, FALSE>>

ThunderDepsNow == <<weatherIntensity, isMuted, windowOpen>>

AudioEffectDue == audioDeps # AudioDepsNow

VolumeEffectDue == volumeDeps # VolumeDepsNow

ThunderEffectDue == thunderDeps # ThunderDepsNow

Settled == ~AudioEffectDue /\ ~VolumeEffectDue /\ ~ThunderEffectDue

\* nothing of the current task or its microtasks is left to run
Idle == Settled /\ rejections = 0

----------------------------------------------------------------------------
(* Audio elements *)

\* audio.src = s: the element loads the new source and is paused
SetSrc(a, s) == [a EXCEPT !.src = s, !.paused = TRUE]

\* audio.play(): playing when allowed, unchanged when rejected
Play(a, ok) == IF ok THEN [a EXCEPT !.paused = FALSE] ELSE a

Pause(a) == [a EXCEPT !.paused = TRUE]

Rejected(called, ok) == IF called /\ ~ok THEN 1 ELSE 0

----------------------------------------------------------------------------
(* Timers *)

Min(a, b) == IF a <= b THEN a ELSE b

FreshId(ts) == CHOOSE n \in 1..(Cardinality(ts) + 1) : \A t \in ts : t.id # n

\* a randomInterval timer: the isMuted and windowOpen its callback closes
\* over, and who scheduled it (the effect, or the callback of the timer before)
ThunderTimer(id, delay, muted, open, by) ==
    [id |-> id, rem |-> delay, muted |-> muted, open |-> open, by |-> by]

\* clearTimeout(id)
ClearTimeout(ts, id) == {t \in ts : t.id # id}

\* Math.random() * 10000, without the 5000
RandomDelay_NoMinimum(k) == k * TickMs

\* 5000 + Math.random() * 10000, Math.random() on the grid
RandomDelay(k) == THUNDER_MIN + k * TickMs

\* the volume of the one-shot thunder sound
ThunderVolume(open) == IF open THEN THUNDER_OPEN_VOLUME ELSE THUNDER_CLOSED_VOLUME

\* if (!isMuted && thunderAudioRef.current): the sound is played
ThunderSound(muted) == ~muted /\ mounted

\* the events that are the user's
Controls == {"controls", "intensity", "timeOfDay", "surface", "mute", "window",
             "enableThunder", "manual"}

\* The record of a step: what it was (event; "" for a pass of the effects and
\* for time), the state it started from (srcBefore, mutedBefore), what it did
\* (srcSet and plays: assignments of audio.src and calls of audio.play();
\* sound: the volume the thunder was played at, 0 for none; cancelled: who
\* scheduled the timers it cleared; gap, restartedGap: sinceAuto and restarted
\* when an auto-loop flash fired), and the event whose effects are still to
\* run (cause).
NewLog(ev) ==
    [event |-> ev, srcSet |-> 0, plays |-> 0, srcBefore |-> audio.src,
     mutedBefore |-> isMuted, sound |-> 0, cancelled |-> {}, gap |-> None,
     restartedGap |-> FALSE, cause |-> IF ev \in Controls THEN ev ELSE ""]

\* who scheduled the timers of ts that are not in ts1
Cancelled(ts, ts1) == {t.by : t \in ts \ ts1}

----------------------------------------------------------------------------
(* Init: the first render, before any effect has run *)

Init ==
    /\ weatherIntensity = "medium"
    /\ timeOfDay = "night"
    /\ showControls = TRUE
    /\ isMuted = FALSE
    /\ windowOpen = FALSE
    /\ volume = INITIAL_VOLUME
    /\ isThundering = FALSE
    /\ enableManualThunder = FALSE
    /\ surface = "glass"
    /\ audio = [src |-> NoSrc, volume |-> DEFAULT_ELEMENT_VOLUME, paused |-> TRUE]
    /\ thunderAudio = [volume |-> DEFAULT_ELEMENT_VOLUME]
    /\ audioDeps = NoDeps
    /\ volumeDeps = NoDeps
    /\ thunderDeps = NoDeps
    /\ timers = {}
    /\ clears = <<>>
    /\ timerRef = NoTimer
    /\ rejections = 0
    /\ mounted = TRUE
    /\ dropCount = DropCountOf("medium")
    /\ drops = MakeDrops(DropCountOf("medium"))
    /\ sinceAuto = None
    /\ restarted = FALSE
    /\ sinceManual = None
    /\ log = [event |-> "mount", srcSet |-> 0, plays |-> 0, srcBefore |-> NoSrc,
              mutedBefore |-> FALSE, sound |-> 0, cancelled |-> {}, gap |-> None,
              restartedGap |-> FALSE, cause |-> "mount"]

----------------------------------------------------------------------------
(* The three effects *)

\* the effect unloading the track when muted
AudioEffect_MuteUnloads(a, ok) ==
    LET targetSrc == AUDIO_SOURCES[surface][weatherIntensity]
        needsSrcChange == a.src # targetSrc
        a1 == IF needsSrcChange THEN SetSrc(a, targetSrc) ELSE a
        a2 == [a1 EXCEPT !.volume = volume]
        callsPlay == ~isMuted /\ (a2.paused \/ needsSrcChange)
    IN  [audio |-> IF isMuted THEN SetSrc(a2, NoSrc)
                   ELSE IF callsPlay THEN Play(a2, ok) ELSE a2,
         srcSet |-> IF needsSrcChange \/ isMuted THEN 1 ELSE 0,
         plays |-> IF callsPlay THEN 1 ELSE 0,
         rejected |-> Rejected(callsPlay, ok)]

\* the effect assigning audio.src without comparing it, as the first version
\* of the page did ("For simplicity in this prototype, we just set it")
AudioEffect_AlwaysAssigns(a, ok) ==
    LET targetSrc == AUDIO_SOURCES[surface][weatherIntensity]
        a2 == [SetSrc(a, targetSrc) EXCEPT !.volume = volume]
    IN  [audio |-> IF isMuted THEN Pause(a2) ELSE Play(a2, ok),
         srcSet |-> 1,
         plays |-> IF isMuted THEN 0 ELSE 1,
         rejected |-> Rejected(~isMuted, ok)]

\* Consolidated Audio Logic: the element after the effect, and what it did
AudioEffect(a, ok) ==
    LET targetSrc == AUDIO_SOURCES[surface][weatherIntensity]
        needsSrcChange == a.src # targetSrc
        a1 == IF needsSrcChange THEN SetSrc(a, targetSrc) ELSE a
        a2 == [a1 EXCEPT !.volume = volume]
        callsPlay == ~isMuted /\ (a2.paused \/ needsSrcChange)
    IN  [audio |-> IF isMuted THEN Pause(a2)
                   ELSE IF callsPlay THEN Play(a2, ok) ELSE a2,
         srcSet |-> IF needsSrcChange THEN 1 ELSE 0,
         plays |-> IF callsPlay THEN 1 ELSE 0,
         rejected |-> Rejected(callsPlay, ok)]

\* the two volumes the wrong way round
VolumeEffect_Swapped == IF windowOpen THEN CLOSED_VOLUME ELSE OPEN_VOLUME

\* Adjust volume based on window open state: the value given to setVolume
VolumeEffect == IF windowOpen THEN OPEN_VOLUME ELSE CLOSED_VOLUME

\* the thunder effect's last run returned a cleanup
HasThunderCleanup == thunderDeps # NoDeps /\ thunderDeps[1] = "heavy"

\* the effect returning no cleanup: the pending timer outlives the effect
ThunderCleanup_Missing(ts) == ts

\* return () => clearTimeout(timerRef.current)
ThunderCleanup(ts) == ClearTimeout(ts, timerRef)

\* a randomInterval that sets no timer
RandomInterval_NoTimer(ts, k, muted, open, by) == ts

\* let timerRef = { current: randomInterval() }
RandomInterval(ts, k, muted, open, by) ==
    ts \cup {ThunderTimer(FreshId(ts), RandomDelay(k), muted, open, by)}

\* a callback that flashes without scheduling the next timer
Reschedule_Stops(ts, k, t) == ts

\* timerRef.current = randomInterval(), in the callback of timer t
Reschedule(ts, k, t) == RandomInterval(ts, k, t.muted, t.open, "callback")

\* One pass of the effects whose dependencies changed: the cleanups first,
\* then the effects in the order of the source; setVolume and
\* setIsThundering take effect for the next render.
FlushEffects(R, O) ==
    /\ mounted
    /\ ~Settled
    /\ \E ok \in O, k \in R :
        LET ae == AudioEffect(audio, ok)
            ts1 == IF ThunderEffectDue /\ HasThunderCleanup
                   THEN ThunderCleanup(timers) ELSE timers
            heavy == weatherIntensity = "heavy"
            did == IF AudioEffectDue THEN ae
                   ELSE [audio |-> audio, srcSet |-> 0, plays |-> 0, rejected |-> 0]
        IN  /\ audio' = did.audio
            /\ rejections' = rejections + did.rejected
            /\ volume' = IF VolumeEffectDue THEN VolumeEffect ELSE volume
            /\ log' = [NewLog("") EXCEPT
                           !.srcSet = did.srcSet,
                           !.plays = did.plays,
                           !.cancelled = Cancelled(timers, ts1),
                           !.cause = IF volume' # volume THEN log.cause ELSE ""]
            /\ IF ThunderEffectDue /\ heavy
               THEN /\ timers' = RandomInterval(ts1, k, isMuted, windowOpen, "effect")
                    /\ timerRef' = FreshId(ts1)
                    /\ restarted' = (restarted \/ sinceAuto # None)
                    /\ UNCHANGED <<isThundering, sinceAuto>>
               ELSE IF ThunderEffectDue
               THEN /\ isThundering' = FALSE
                    /\ timers' = ts1
                    /\ timerRef' = NoTimer
                    /\ sinceAuto' = None
                    /\ restarted' = FALSE
               ELSE UNCHANGED <<isThundering, timers, timerRef, sinceAuto, restarted>>
            /\ audioDeps' = AudioDepsNow
            /\ volumeDeps' = VolumeDepsNow
            /\ thunderDeps' = ThunderDepsNow
    /\ UNCHANGED <<uiVars, rainVars, thunderAudio, clears, mounted, sinceManual>>

\* a catch that mutes the page when playback is rejected
CatchPlaybackError_Mutes ==
    /\ rejections > 0
    /\ rejections' = rejections - 1
    /\ isMuted' = TRUE
    /\ log' = [NewLog("catch") EXCEPT !.cause = log.cause]
    /\ UNCHANGED <<weatherIntensity, timeOfDay, showControls, windowOpen,
                   enableManualThunder, surface, rainVars, effectVars, clockVars,
                   volume, isThundering, audio, thunderAudio, timers, clears,
                   timerRef, mounted>>

\* playPromise.catch(error => console.log(...)): the rejection is logged
CatchPlaybackError ==
    /\ rejections > 0
    /\ rejections' = rejections - 1
    /\ log' = [NewLog("catch") EXCEPT !.cause = log.cause]
    /\ UNCHANGED <<uiVars, rainVars, effectVars, clockVars, volume, isThundering,
                   audio, thunderAudio, timers, clears, timerRef, mounted>>

----------------------------------------------------------------------------
(* Controls *)

\* a control of the panel can be used
PanelUsable == mounted /\ showControls /\ Idle

\* setShowControls(!showControls)
ToggleControls ==
    /\ mounted /\ Idle
    /\ showControls' = ~showControls
    /\ log' = NewLog("controls")
    /\ UNCHANGED <<weatherIntensity, timeOfDay, isMuted, windowOpen,
                   enableManualThunder, surface, rainVars, effectVars, clockVars,
                   volume, isThundering, audio, thunderAudio, timers, clears,
                   timerRef, rejections, mounted>>

\* the handler's own source swap: assigned and played when the source differs
ForcePlay(a, intensity, ok) ==
    LET newSrc == AUDIO_SOURCES[surface][intensity]
        differs == a.src # newSrc
    IN  [audio |-> IF differs THEN Play(SetSrc(a, newSrc), ok) ELSE a,
         srcSet |-> IF differs THEN 1 ELSE 0,
         plays |-> IF differs THEN 1 ELSE 0,
         rejected |-> Rejected(differs, ok)]

\* setIsMuted(true) in its place
MutedAfterIntensityChange_Mutes == TRUE

\* setIsMuted(false) of handleIntensityChange
MutedAfterIntensityChange == FALSE

handleIntensityChange(intensity, O) ==
    /\ PanelUsable
    /\ \E ok \in O :
        LET fp == ForcePlay(audio, intensity, ok)
        IN  /\ audio' = fp.audio
            /\ rejections' = rejections + fp.rejected
            /\ log' = [NewLog("intensity") EXCEPT !.srcSet = fp.srcSet,
                                                  !.plays = fp.plays]
    /\ weatherIntensity' = intensity
    /\ isMuted' = MutedAfterIntensityChange
    /\ RenderRain(intensity)
    /\ UNCHANGED <<timeOfDay, showControls, windowOpen, enableManualThunder,
                   surface, effectVars, clockVars, volume, isThundering,
                   thunderAudio, timers, clears, timerRef, mounted>>

setTimeOfDay(t) ==
    /\ PanelUsable
    /\ timeOfDay' = t
    /\ log' = NewLog("timeOfDay")
    /\ UNCHANGED <<weatherIntensity, showControls, isMuted, windowOpen,
                   enableManualThunder, surface, rainVars, effectVars, clockVars,
                   volume, isThundering, audio, thunderAudio, timers, clears,
                   timerRef, rejections, mounted>>

setSurface(s) ==
    /\ PanelUsable
    /\ surface' = s
    /\ log' = NewLog("surface")
    /\ UNCHANGED <<weatherIntensity, timeOfDay, showControls, isMuted, windowOpen,
                   enableManualThunder, rainVars, effectVars, clockVars,
                   volume, isThundering, audio, thunderAudio, timers, clears,
                   timerRef, rejections, mounted>>

\* the Sound switch: onCheckedChange={(c) => setIsMuted(!c)}, c = !checked
setIsMuted ==
    /\ PanelUsable
    /\ isMuted' = ~isMuted
    /\ log' = NewLog("mute")
    /\ UNCHANGED <<weatherIntensity, timeOfDay, showControls, windowOpen,
                   enableManualThunder, surface, rainVars, effectVars, clockVars,
                   volume, isThundering, audio, thunderAudio, timers, clears,
                   timerRef, rejections, mounted>>

\* the Open Window switch
setWindowOpen ==
    /\ PanelUsable
    /\ windowOpen' = ~windowOpen
    /\ log' = NewLog("window")
    /\ UNCHANGED <<weatherIntensity, timeOfDay, showControls, isMuted,
                   enableManualThunder, surface, rainVars, effectVars, clockVars,
                   volume, isThundering, audio, thunderAudio, timers, clears,
                   timerRef, rejections, mounted>>

\* the Enable Thunder switch
setEnableManualThunder ==
    /\ PanelUsable
    /\ enableManualThunder' = ~enableManualThunder
    /\ log' = NewLog("enableThunder")
    /\ UNCHANGED <<weatherIntensity, timeOfDay, showControls, isMuted, windowOpen,
                   surface, rainVars, effectVars, clockVars,
                   volume, isThundering, audio, thunderAudio, timers, clears,
                   timerRef, rejections, mounted>>

----------------------------------------------------------------------------
(* Thunder *)

\* a flash that schedules no clear
FlashClear_None(cs) == cs

\* setTimeout(() => setIsThundering(false), 500)
FlashClear_Short(cs) == Append(cs, FLASH_MS \div 2)

\* setTimeout(() => setIsThundering(false), 1000)
FlashClear(cs) == Append(cs, FLASH_MS)

\* the closure of the Trigger Thunder button: the values of the last render
ManualMuted == isMuted

ManualOpen == windowOpen

\* the flash and the thunder sound, common to triggerThunder and
\* triggerManualThunder; muted and open are the values the closure holds
Thunder(ev, muted, open, ok, gap) ==
    /\ isThundering' = TRUE
    /\ IF ThunderSound(muted)
       THEN /\ thunderAudio' = [thunderAudio EXCEPT !.volume = ThunderVolume(open)]
            /\ rejections' = rejections + Rejected(TRUE, ok)
       ELSE UNCHANGED <<thunderAudio, rejections>>
    /\ log' = [NewLog(ev) EXCEPT !.sound = IF ThunderSound(muted)
                                           THEN ThunderVolume(open) ELSE 0,
                                 !.gap = gap,
                                 !.restartedGap = restarted]

\* the Trigger Thunder button, rendered while enableManualThunder
triggerManualThunder(O, clocked) ==
    /\ PanelUsable
    /\ enableManualThunder
    /\ Len(clears) < MaxClears
    /\ \E ok \in O : Thunder("manual", ManualMuted, ManualOpen, ok, None)
    /\ clears' = FlashClear(clears)
    /\ sinceManual' = IF clocked THEN 0 ELSE None
    /\ UNCHANGED <<uiVars, rainVars, effectVars, volume, audio, timers, timerRef,
                   mounted, sinceAuto, restarted>>

\* the callback of randomInterval: triggerThunder(), then
\* timerRef.current = randomInterval()
ThunderTimerFires(R, O, clocked) ==
    /\ Idle
    /\ \E t \in timers, k \in R, ok \in O :
        /\ t.rem = 0
        /\ Thunder("auto", t.muted, t.open, ok, sinceAuto)
        /\ clears' = FlashClear(clears)
        /\ timers' = Reschedule(timers \ {t}, k, t)
        /\ timerRef' = FreshId(timers \ {t})
    /\ sinceAuto' = IF clocked THEN 0 ELSE None
    /\ restarted' = FALSE
    /\ UNCHANGED <<uiVars, rainVars, effectVars, volume, audio, mounted, sinceManual>>

\* () => setIsThundering(false)
ClearTimerFires ==
    /\ Idle
    /\ clears # <<>>
    /\ Head(clears) = 0
    /\ clears' = Tail(clears)
    /\ isThundering' = FALSE
    /\ log' = NewLog("clear")
    /\ UNCHANGED <<uiVars, rainVars, effectVars, clockVars, volume, audio,
                   thunderAudio, timers, timerRef, rejections, mounted>>

----------------------------------------------------------------------------
(* Time and teardown *)

Elapse(clock, d, cap) == IF clock = None THEN None ELSE Min(clock + d, cap)

\* the ms left of every pending timer
Pending == {t.rem : t \in timers} \cup {clears[n] : n \in 1..Len(clears)}

\* time passes, by q or up to the next timer that is due
Tick(q) ==
    /\ Idle
    /\ \A r \in Pending : r > 0
    /\ LET d == CHOOSE r \in Pending \cup {q} : \A x \in Pending \cup {q} : r <= x
       IN  /\ timers' = {[t EXCEPT !.rem = @ - d] : t \in timers}
           /\ clears' = [n \in 1..Len(clears) |-> clears[n] - d]
           /\ sinceAuto' = Elapse(sinceAuto, d, THUNDER_MIN + THUNDER_SPAN)
           /\ sinceManual' = IF sinceManual = None \/ sinceManual + d > FLASH_MS
                             THEN None ELSE sinceManual + d
    /\ log' = NewLog("")
    /\ UNCHANGED <<uiVars, rainVars, effectVars, restarted, volume, isThundering,
                   audio, thunderAudio, timerRef, rejections, mounted>>

\* a thunder effect that returns no cleanup for the unmount
UnmountCleanup_Missing(ts) == ts

\* the cleanups React runs when the page is unmounted
UnmountCleanup(ts) == IF HasThunderCleanup THEN ThunderCleanup(ts) ELSE ts

Unmount ==
    /\ mounted /\ Idle
    /\ mounted' = FALSE
    /\ timers' = UnmountCleanup(timers)
    /\ timerRef' = NoTimer
    /\ log' = [NewLog("unmount") EXCEPT
                   !.cancelled = Cancelled(timers, UnmountCleanup(timers))]
    /\ UNCHANGED <<uiVars, rainVars, effectVars, clockVars, volume, isThundering,
                   audio, thunderAudio, clears, rejections>>

----------------------------------------------------------------------------
(* Specifications *)

\* The thunder scheduler on the half-flash grid, with the controls that
\* reach it (intensity, mute, open window, manual thunder, teardown) and
\* playback allowed.  The clocks sinceAuto and sinceManual are not run.
Next ==
    \/ FlushEffects(DelaySteps, PlayAllowed)
    \/ \E i \in WeatherType : handleIntensityChange(i, PlayAllowed)
    \/ setIsMuted
    \/ setWindowOpen
    \/ setEnableManualThunder
    \/ triggerManualThunder(PlayAllowed, FALSE)
    \/ ThunderTimerFires(DelaySteps, PlayAllowed, FALSE)
    \/ ClearTimerFires
    \/ Tick(TickMs)
    \/ Unmount

Spec == Init /\ [][Next]_vars

\* The same on the grid of whole flashes, with the clock sinceAuto.
NextGap ==
    \/ FlushEffects(CoarseDelaySteps, PlayAllowed)
    \/ \E i \in WeatherType : handleIntensityChange(i, PlayAllowed)
    \/ setIsMuted
    \/ setWindowOpen
    \/ setEnableManualThunder
    \/ triggerManualThunder(PlayAllowed, FALSE)
    \/ ThunderTimerFires(CoarseDelaySteps, PlayAllowed, TRUE)
    \/ ClearTimerFires
    \/ Tick(FLASH_MS)
    \/ Unmount

SpecGap == Init /\ [][NextGap]_vars

\* The same as Spec, with the clock sinceManual.
NextFlash ==
    \/ FlushEffects(DelaySteps, PlayAllowed)
    \/ \E i \in WeatherType : handleIntensityChange(i, PlayAllowed)
    \/ setIsMuted
    \/ setWindowOpen
    \/ setEnableManualThunder
    \/ triggerManualThunder(PlayAllowed, TRUE)
    \/ ThunderTimerFires(DelaySteps, PlayAllowed, FALSE)
    \/ ClearTimerFires
    \/ Tick(TickMs)
    \/ Unmount

SpecFlash == Init /\ [][NextFlash]_vars

\* Every control of the page, with playback allowed or rejected, in the
\* time before the first timer is due.
NextUI ==
    \/ FlushEffects(DelaySteps, PlayOutcomes)
    \/ CatchPlaybackError
    \/ ToggleControls
    \/ \E i \in WeatherType : handleIntensityChange(i, PlayOutcomes)
    \/ \E t \in TimeOfDay : setTimeOfDay(t)
    \/ \E s \in Surface : setSurface(s)
    \/ setIsMuted
    \/ setWindowOpen
    \/ setEnableManualThunder
    \/ triggerManualThunder(PlayOutcomes, FALSE)
    \/ Unmount

SpecUI == Init /\ [][NextUI]_vars

\* The same as Spec with the shortest delays of the grid, and with the
\* progress the browser gives: the effects of a render run, time passes, and
\* a timer that is due fires whenever the page is idle.
NextLive ==
    \/ FlushEffects(ShortDelaySteps, PlayAllowed)
    \/ \E i \in WeatherType : handleIntensityChange(i, PlayAllowed)
    \/ setIsMuted
    \/ setWindowOpen
    \/ setEnableManualThunder
    \/ triggerManualThunder(PlayAllowed, FALSE)
    \/ ThunderTimerFires(ShortDelaySteps, PlayAllowed, FALSE)
    \/ ClearTimerFires
    \/ Tick(TickMs)
    \/ Unmount

Fairness ==
    /\ WF_vars(FlushEffects(ShortDelaySteps, PlayAllowed))
    /\ SF_vars(Tick(TickMs))
    /\ SF_vars(ThunderTimerFires(ShortDelaySteps, PlayAllowed, FALSE))
    /\ SF_vars(ClearTimerFires)

SpecLive == Init /\ [][NextLive]_vars /\ Fairness

----------------------------------------------------------------------------
(* The thunder scheduler *)

\* C1: an auto-loop flash fires only while intensity is heavy, and once the
\* effects of a change away from heavy have run (which nothing precedes) no
\* auto-loop timer is pending: the one that was pending has been cancelled
\* and none has been scheduled.
C1_NoAutoFlashAfterHeavy ==
    /\ log.event = "auto" => weatherIntensity = "heavy"
    /\ Settled /\ weatherIntensity # "heavy" => timers = {}

\* heavy has been left after an auto-loop flash, and the effect's cleanup
\* cancelled the timer that the flash's callback had scheduled
C1_Witness_CancelledOnLeavingHeavy ==
    /\ Settled
    /\ mounted
    /\ weatherIntensity # "heavy"
    /\ log.cancelled = {"callback"}
    /\ timers = {}

\* C2, as claimed: while intensity stays heavy, two consecutive auto-loop
\* flashes are at least 5000ms and less than 15000ms apart, whatever the
\* control events in between.
C2_GapInRange ==
    log.event = "auto" /\ log.gap # None =>
        THUNDER_MIN <= log.gap /\ log.gap < THUNDER_MIN + THUNDER_SPAN

\* C2, amended: while intensity stays heavy, two consecutive auto-loop flashes
\* are at least 5000ms apart, and less than 15000ms apart when the thunder
\* effect did not run again in between, that is when isMuted and windowOpen
\* did not change.
C2_GapInRangeUnlessRestarted ==
    log.event = "auto" /\ log.gap # None =>
        /\ THUNDER_MIN <= log.gap
        /\ ~log.restartedGap => log.gap < THUNDER_MIN + THUNDER_SPAN

\* the second of two auto-loop flashes with no restart between them, a manual
\* flash having been triggered in between
C2_Witness_SecondFlash ==
    /\ log.event = "auto"
    /\ log.gap # None
    /\ ~log.restartedGap
    /\ enableManualThunder

\* C3, as claimed: from a manual trigger until 1000ms later isThundering
\* stays true.
C3_FlashStaysOn ==
    sinceManual # None /\ sinceManual < FLASH_MS => isThundering

\* C3, amended: a manual trigger sets isThundering to true at once and
\* schedules its clear 1000ms ahead; that timer stays pending, running down
\* with the time since the trigger, until it fires exactly 1000ms after the
\* trigger, and a clear timer that fires leaves isThundering false.
C3_FlashSetAndClearedAfter1000 ==
    /\ log.event = "manual" =>
        /\ isThundering
        /\ clears # <<>>
        /\ clears[Len(clears)] = FLASH_MS
    /\ sinceManual # None =>
        \/ \E n \in 1..Len(clears) : clears[n] = FLASH_MS - sinceManual
        \/ sinceManual = FLASH_MS
    /\ log.event = "clear" => ~isThundering

\* a manual flash has been cleared by its timer, 1000ms after the trigger
C3_Witness_ClearedAt1000 ==
    /\ sinceManual = FLASH_MS
    /\ log.event = "clear"
    /\ clears = <<>>
    /\ ~isThundering

\* C6: at every thunder flash, auto-loop or manual, the thunder sound is
\* played if and only if isMuted is false at that moment, and at 1.0 when
\* windowOpen is true at that moment and at 0.5 otherwise.
C6_ThunderSoundByCurrentState ==
    log.event \in {"auto", "manual"} =>
        /\ log.sound # 0 <=> ~isMuted
        /\ log.sound # 0 =>
            /\ log.sound = IF windowOpen THEN THUNDER_OPEN_VOLUME
                                         ELSE THUNDER_CLOSED_VOLUME
            /\ thunderAudio.volume = log.sound

\* an auto-loop flash sounding at the volume of the open window, the window
\* having been opened after the page was mounted
C6_Witness_AutoFlashWindowOpen ==
    /\ log.event = "auto"
    /\ windowOpen
    /\ ~isMuted
    /\ log.sound = THUNDER_OPEN_VOLUME
    /\ thunderAudio.volume = THUNDER_OPEN_VOLUME

\* C7: after the page is unmounted no auto-loop timer is pending, so no
\* auto-loop flash fires: the flashes that fire fire on the mounted page.
C7_NoThunderTimerAfterUnmount ==
    /\ ~mounted => timers = {}
    /\ log.event = "auto" => mounted

\* the page unmounted while heavy, its cleanup having cancelled a timer that
\* the callback of an earlier timer had scheduled
C7_Witness_UnmountCancelsRescheduled ==
    /\ ~mounted
    /\ weatherIntensity = "heavy"
    /\ log.event = "unmount"
    /\ log.cancelled = {"callback"}

----------------------------------------------------------------------------
(* The controls, the ambient audio and the rain *)

\* the volume that goes with windowOpen
VolumeFor(open) == IF open THEN OPEN_VOLUME ELSE CLOSED_VOLUME

\* C4, as claimed: in every reachable state the volume state and the volume
\* of the audio element are 0.8 when windowOpen and 0.3 otherwise.
C4_VolumeByWindowAlways ==
    /\ volume = VolumeFor(windowOpen)
    /\ audio.volume = VolumeFor(windowOpen)

\* C4, amended: in every state in which the effects of the last event have
\* run, the volume state and the volume of the audio element are 0.8 when
\* windowOpen and 0.3 otherwise.
C4_VolumeByWindowWhenSettled ==
    Settled =>
        /\ volume = VolumeFor(windowOpen)
        /\ audio.volume = VolumeFor(windowOpen)

\* the window has been opened and the effects have run
C4_Witness_WindowOpened ==
    /\ Settled
    /\ windowOpen
    /\ volume = OPEN_VOLUME
    /\ audio.volume = OPEN_VOLUME

\* the step is a pass of the effects in which the audio effect ran
AudioEffectRan == AudioEffectDue /\ audioDeps' = AudioDepsNow /\ log'.event = ""

\* C5: while unmuted, a change of surface or of intensity assigns the audio
\* element's source if and only if the track of the new (surface, intensity)
\* differs from the element's source: in the handler of the intensity
\* buttons, and in the pass of the effects that follows the change; when it
\* is assigned, it is the new track and there is one call of play() in all.
C5_SwapIffSourceDiffers ==
    [][/\ log'.event = "intensity" /\ ~isMuted =>
            /\ log'.srcSet = 1 <=>
                    audio.src # AUDIO_SOURCES[surface][weatherIntensity']
            /\ log'.srcSet = 0 => audio'.src = audio.src
       /\ log.event \in {"surface", "intensity"} /\ ~log.mutedBefore /\ ~isMuted
          /\ AudioEffectRan =>
            /\ log'.srcSet = 1 <=>
                    log.srcBefore # AUDIO_SOURCES[surface][weatherIntensity]
            /\ log'.srcSet = 1 =>
                    /\ audio'.src = AUDIO_SOURCES[surface][weatherIntensity]
                    /\ log.plays + log'.plays = 1
            /\ log'.srcSet = 0 => audio'.src = audio.src
      ]_vars

\* a change of surface has swapped one track for another, with one play()
C5_Witness_SurfaceSwapped ==
    /\ Settled
    /\ ~isMuted
    /\ log.srcSet = 1
    /\ log.plays = 1
    /\ log.srcBefore # NoSrc
    /\ audio.src = AUDIO_SOURCES[surface][weatherIntensity]
    /\ audio.src # log.srcBefore

\* C8: the rendered raindrops are as many as the intensity says: 50 for
\* light, 150 for medium, 400 for heavy; any other value gives 100.
C8_DropCountByIntensity ==
    /\ weatherIntensity = "light" => Len(drops) = DROPS_LIGHT
    /\ weatherIntensity = "medium" => Len(drops) = DROPS_MEDIUM
    /\ weatherIntensity = "heavy" => Len(drops) = DROPS_HEAVY
    /\ dropCount = Len(drops)
    /\ \A v \in OtherIntensity : DropCountOf(v) = DROPS_DEFAULT

\* heavy selected after light: 400 drops
C8_Witness_HeavyAfterChange ==
    /\ weatherIntensity = "heavy"
    /\ log.event = "intensity"
    /\ Len(drops) = DROPS_HEAVY

\* the step leaves the selections other than isMuted and x unchanged
OthersUnchanged ==
    [x \in {"intensity", "timeOfDay", "surface", "window", "enableThunder", "mute"} |->
        /\ x # "intensity" => weatherIntensity' = weatherIntensity
        /\ x # "timeOfDay" => timeOfDay' = timeOfDay
        /\ x # "surface" => surface' = surface
        /\ x # "window" => windowOpen' = windowOpen
        /\ x # "enableThunder" => enableManualThunder' = enableManualThunder]

\* C9, as claimed: each control changes only its own selection.
C9_ControlsIndependent ==
    [][\A x \in DOMAIN OthersUnchanged :
          log'.event = x => OthersUnchanged[x] /\ (x # "mute" => isMuted' = isMuted)
      ]_vars

\* C9, amended: each control changes only its own selection, except that an
\* intensity selection also sets isMuted to false; the steps that are not
\* these controls change none of the six.
C9_ControlsIndependentButUnmute ==
    [][/\ \A x \in DOMAIN OthersUnchanged :
            log'.event = x =>
                /\ OthersUnchanged[x]
                /\ x \notin {"mute", "intensity"} => isMuted' = isMuted
                /\ x = "intensity" => isMuted' = FALSE
       /\ log'.event \notin DOMAIN OthersUnchanged =>
            UNCHANGED <<weatherIntensity, timeOfDay, surface, windowOpen,
                        enableManualThunder, isMuted>>
      ]_vars

\* an intensity selection has unmuted the page
C9_Witness_IntensityUnmuted ==
    /\ log.event = "intensity"
    /\ log.mutedBefore
    /\ ~isMuted

\* C10, as claimed: once a rejection has been caught, no state changes and
\* the next call of audio.play() is made by a control event or by the effects
\* of one.
C10_NoAttemptWithoutControl ==
    [][/\ log'.event = "catch" =>
            UNCHANGED <<uiVars, volume, audio, thunderAudio, isThundering>>
       /\ log.event = "catch" /\ log'.plays > 0 =>
            log'.event \in Controls \/ log.cause \in Controls
      ]_vars

\* C10, amended: the catch of a rejected play() changes nothing and attempts
\* no playback; audio.play() is called only by handleIntensityChange or by a
\* run of the audio effect, which takes a change of intensity, surface, mute
\* or volume, and the thunder sound is played only by a flash.
C10_RejectionCaughtNoRetry ==
    [][/\ log'.event = "catch" =>
            /\ UNCHANGED <<uiVars, rainVars, effectVars, volume, isThundering,
                           audio, thunderAudio, timers, clears, timerRef, mounted>>
            /\ log'.plays = 0
            /\ log'.sound = 0
       /\ log'.plays > 0 => log'.event = "intensity" \/ AudioEffectRan
       /\ log'.sound # 0 => log'.event \in {"auto", "manual"}
       /\ rejections' > rejections => log'.plays > 0 \/ log'.sound # 0
      ]_vars

\* a rejected ambient playback has been caught: still unmuted, the source
\* set, not playing
C10_Witness_RejectionCaught ==
    /\ log.event = "catch"
    /\ Idle
    /\ ~isMuted
    /\ audio.src = AUDIO_SOURCES[surface][weatherIntensity]
    /\ audio.paused

\* C11: the effects of setting mute on pause the ambient audio and do not
\* assign the element's source; the effects of setting mute off again do not
\* assign it either and call audio.play() once: so while muted, and after
\* mute off, the source is the track of the current selection, as before.
C11_MutePausesKeepsSource ==
    [][/\ log.event = "mute" /\ isMuted /\ AudioEffectRan =>
            /\ audio'.paused
            /\ audio'.src = audio.src
            /\ log'.srcSet = 0
            /\ log'.plays = 0
       /\ log.event = "mute" /\ ~isMuted /\ AudioEffectRan =>
            /\ audio'.src = audio.src
            /\ log'.srcSet = 0
            /\ log'.plays = 1
       /\ log'.event = "mute" =>
            /\ audio' = audio
            /\ audio.src = AUDIO_SOURCES[surface][weatherIntensity]
      ]_vars

\* muted, the effects run: paused, with the track of a surface selected
\* after mount still loaded
C11_Witness_MutedKeepsTrack ==
    /\ Settled
    /\ mounted
    /\ isMuted
    /\ audio.paused
    /\ surface # "glass"
    /\ audio.src = AUDIO_SOURCES[surface][weatherIntensity]
    /\ log.srcSet = 0

----------------------------------------------------------------------------
(* The auto-loop and the flash-clear timers *)

\* C12: in every settled state of the mounted page an auto-loop thunder timer
\* is pending if and only if intensity is heavy.
C12_TimerPendingIffHeavy ==
    Settled /\ mounted => (timers # {} <=> weatherIntensity = "heavy")

\* heavy has been entered and its effects have run: the effect's timer is
\* pending, no flash having fired yet
C12_Witness_LoopStarted ==
    /\ Settled
    /\ mounted
    /\ weatherIntensity = "heavy"
    /\ \E t \in timers : t.by = "effect" /\ t.id = timerRef
    /\ ~isThundering
    /\ clears = <<>>

\* C13: at most one auto-loop thunder timer is pending at any time, and on
\* the mounted page it is the one whose handle timerRef.current holds; when
\* no effect holds a handle none is pending.
C13_OneThunderTimer ==
    /\ Cardinality(timers) <= 1
    /\ \A t \in timers : t.id = timerRef
    /\ timerRef = NoTimer => timers = {}

\* after a flash whose callback rescheduled, and a mute or window change that
\* re-ran the effect: one timer, the effect's, the handle pointing at it
C13_Witness_ReplacedAfterReschedule ==
    /\ log.cancelled = {"callback"}
    /\ weatherIntensity = "heavy"
    /\ mounted
    /\ Cardinality(timers) = 1
    /\ \A t \in timers : t.by = "effect" /\ t.id = timerRef

\* the delays randomInterval can draw, on the grid
FreshDelays == {RandomDelay(k) : k \in DelaySteps}

\* C16: while intensity stays heavy, the effects of a mute or window-open
\* toggle cancel the pending auto-loop timer and schedule one fresh timer,
\* whose delay is drawn anew in [5000ms, 15000ms) and counts from the toggle,
\* whatever was left of the old one; it is the only one pending afterwards.
C16_ToggleRestartsTimer ==
    [][log.event \in {"mute", "window"} /\ weatherIntensity = "heavy"
       /\ log'.event = "" =>
            /\ Cardinality(timers) = 1
            /\ log'.cancelled = {t.by : t \in timers}
            /\ timers' \cap timers = {}
            /\ Cardinality(timers') = 1
            /\ \A t \in timers' :
                /\ t.rem \in FreshDelays
                /\ THUNDER_MIN <= t.rem /\ t.rem < THUNDER_MIN + THUNDER_SPAN
                /\ t.by = "effect"
                /\ t.id = timerRef'
                /\ t.muted = isMuted /\ t.open = windowOpen
      ]_vars

\* some time after an auto-loop flash (its clear timer has run down in part)
\* a toggle has cancelled the timer the flash's callback had scheduled, and
\* a fresh one is pending with its whole delay ahead
C16_Witness_WaitDiscarded ==
    /\ weatherIntensity = "heavy"
    /\ mounted
    /\ ~enableManualThunder
    /\ log.event = ""
    /\ log.cancelled = {"callback"}
    /\ \E t \in timers : t.by = "effect" /\ t.rem >= THUNDER_MIN
    /\ \E n \in 1..Len(clears) : 0 < clears[n] /\ clears[n] < FLASH_MS

\* C17: nothing cancels a flash-clear timer: a pending one goes only by
\* firing; when it fires it sets isThundering to false and does nothing else;
\* and the timer callbacks that fire when intensity is not heavy or the page
\* is unmounted are these alone: none sets isThundering to true, plays a
\* sound or schedules a timer.
C17_ClearTimersOnlyClear ==
    [][/\ log'.event # "clear" => Len(clears') >= Len(clears)
       /\ log'.event = "clear" =>
            /\ Len(clears') = Len(clears) - 1
            /\ ~isThundering'
            /\ log'.sound = 0
            /\ UNCHANGED <<uiVars, rainVars, effectVars, volume, audio,
                           thunderAudio, timers, timerRef, rejections, mounted>>
       /\ log'.event \in {"auto", "clear"}
          /\ (weatherIntensity # "heavy" \/ ~mounted) =>
            /\ log'.event = "clear"
            /\ ~isThundering'
            /\ timers' = {}
            /\ Len(clears') < Len(clears)
      ]_vars

\* a flash-clear timer has fired after teardown, which left it pending
C17_Witness_ClearAfterUnmount ==
    /\ log.event = "clear"
    /\ ~mounted
    /\ ~isThundering
    /\ timers = {}

\* C14, as claimed: if from some point on intensity stays heavy and the page
\* stays mounted, auto-loop flashes occur infinitely often.
C14_FlashesForever ==
    <>[](weatherIntensity = "heavy" /\ mounted) => []<>(log.event = "auto")

\* C14, amended: every firing of the auto-loop timer schedules the next one;
\* and if from some point on intensity stays heavy, the page stays mounted
\* and the thunder effect is not run again (isMuted and windowOpen stop
\* changing), auto-loop flashes occur infinitely often.
C14_FlashesForeverUnlessRestarted ==
    /\ [][log'.event = "auto" =>
            \E t \in timers' : t.by = "callback" /\ t.id = timerRef'
                                /\ t.rem >= THUNDER_MIN]_vars
    /\ <>[](weatherIntensity = "heavy" /\ mounted /\ ~ThunderEffectDue)
            => []<>(log.event = "auto")

\* an auto-loop flash has fired while heavy, and its callback has scheduled
\* the next timer with its whole delay ahead
C14_Witness_LoopWentRound ==
    /\ log.event = "auto"
    /\ weatherIntensity = "heavy"
    /\ mounted
    /\ Len(clears) = 1
    /\ \E t \in timers : t.by = "callback" /\ t.rem >= THUNDER_MIN
    /\ thunderAudio.volume = THUNDER_CLOSED_VOLUME

\* C15: every flash ends within 1000ms.  A flash, auto-loop or manual, sets
\* isThundering and schedules a clear 1000ms ahead; while isThundering is
\* true a clear timer is pending (so with at most 1000ms left), also when
\* flashes overlap, when intensity leaves heavy or when the auto-loop is
\* restarted; time does not pass a clear that is due; and isThundering,
\* once true, becomes false again.
C15_EveryFlashEnds ==
    /\ [](isThundering => clears # <<>> /\ Head(clears) <= FLASH_MS)
    /\ [][log'.event \in {"auto", "manual"} =>
            isThundering' /\ clears'[Len(clears')] = FLASH_MS]_vars
    /\ [][clears # <<>> /\ Head(clears) = 0 /\ log'.event # "clear" =>
            clears' # <<>> /\ Head(clears') = 0]_vars
    /\ (isThundering ~> ~isThundering)

\* two flashes overlapped and the clear of the first has ended both: the
\* clear of the second is still pending
C15_Witness_OverlapEnded ==
    /\ log.event = "clear"
    /\ ~isThundering
    /\ clears # <<>>
    /\ 0 < Head(clears) /\ Head(clears) < FLASH_MS

====
